---- MODULE Spec2Model ----
(***************************************************************************)
(* A model of data/build_data.py: the batch job that reads systems and     *)
(* jumps from an SQLite database, filters placeholder systems by name,     *)
(* converts metres to light-years with the rotation (x,y,z)->(x,z,-y),     *)
(* drops jumps whose endpoints did not survive, and writes four asset      *)
(* files and a manifest.                                                   *)
(*                                                                         *)
(* Text (a Python str) is a sequence of one-character strings, so that     *)
(* lower(), the "in" substring test, str(), int() and the regular          *)
(* expressions are computed and not assumed.  None and the empty string    *)
(* are both the empty sequence: the code only ever tests them by truth     *)
(* value ("a or b", "if not t", "if c").                                   *)
(***************************************************************************)
EXTENDS Integers, Sequences, FiniteSets, TLC

(* ------------------------------ bounds --------------------------------- *)

\* Rows the systems / jumps cursor yields in the wide data scenario.
MaxSystems == 3
MaxJumps == 3
\* Rows the cursors yield in the schema scenarios.
MaxSchemaRows == 1
\* transform_xyz is explored on coordinates of -MaxLy .. MaxLy half light-years.
MaxLy == 4

(* ------------------------------- text ---------------------------------- *)

None == << >>

LowerMap ==
    [A |-> "a", B |-> "b", C |-> "c", D |-> "d", E |-> "e", F |-> "f", G |-> "g",
     H |-> "h", I |-> "i", J |-> "j", K |-> "k", L |-> "l", M |-> "m", N |-> "n",
     O |-> "o", P |-> "p", Q |-> "q", R |-> "r", S |-> "s", T |-> "t", U |-> "u",
     V |-> "v", W |-> "w", X |-> "x", Y |-> "y", Z |-> "z"]

\* str.lower(), one character
lower_char(c) == IF c \in DOMAIN LowerMap THEN LowerMap[c] ELSE c

\* str.lower()
lower(s) == [i \in 1..Len(s) |-> lower_char(s[i])]

\* Python's "needle in hay" on str
substr_in(needle, hay) ==
    \E i \in 0..(Len(hay) - Len(needle)) :
        \A j \in 1..Len(needle) : hay[i + j] = needle[j]

DigitChars == <<"0", "1", "2", "3", "4", "5", "6", "7", "8", "9">>

is_digit(c) == \E d \in 1..10 : DigitChars[d] = c

digit_value(c) == (CHOOSE d \in 1..10 : DigitChars[d] = c) - 1

Whitespace == {" ", "\n"}

RECURSIVE nat_to_text(_)
nat_to_text(n) ==
    IF n < 10 THEN <<DigitChars[n + 1]>>
    ELSE Append(nat_to_text(n \div 10), DigitChars[(n % 10) + 1])

\* str() of an int
int_to_text(n) == IF n < 0 THEN <<"-">> \o nat_to_text(-n) ELSE nat_to_text(n)

RECURSIVE strip_left(_)
strip_left(s) ==
    IF s # << >> /\ Head(s) \in Whitespace THEN strip_left(Tail(s)) ELSE s

RECURSIVE strip_right(_)
strip_right(s) ==
    IF s # << >> /\ s[Len(s)] \in Whitespace
    THEN strip_right(SubSeq(s, 1, Len(s) - 1)) ELSE s

RECURSIVE digits_value(_)
digits_value(s) ==
    IF s = << >> THEN 0
    ELSE 10 * digits_value(SubSeq(s, 1, Len(s) - 1)) + digit_value(s[Len(s)])

\* int(str): surrounding whitespace is dropped, then an optional sign and
\* decimal digits.  Result [ok, v].
parse_int(s) ==
    LET t == strip_right(strip_left(s))
        neg == t # << >> /\ Head(t) = "-"
        body == IF t # << >> /\ Head(t) \in {"-", "+"} THEN Tail(t) ELSE t
    IN  IF body # << >> /\ \A i \in 1..Len(body) : is_digit(body[i])
        THEN [ok |-> TRUE, v |-> IF neg THEN 0 - digits_value(body) ELSE digits_value(body)]
        ELSE [ok |-> FALSE, v |-> 0]

(* ------------------------------ values --------------------------------- *)

\* What a cell of an SQLite row holds: an integer, a text or NULL.
IntV(n) == [t |-> "int", i |-> n, s |-> << >>]
TextV(s) == [t |-> "text", i |-> 0, s |-> s]
NullV == [t |-> "null", i |-> 0, s |-> << >>]

\* int(v): [ok, v, exc]
py_int(v) ==
    CASE v.t = "int" -> [ok |-> TRUE, v |-> v.i, exc |-> "none"]
      [] v.t = "text" ->
            LET p == parse_int(v.s)
            IN  [ok |-> p.ok, v |-> p.v, exc |-> IF p.ok THEN "none" ELSE "ValueError"]
      [] OTHER -> [ok |-> FALSE, v |-> 0, exc |-> "TypeError"]

\* str(v)
py_str(v) ==
    CASE v.t = "int" -> int_to_text(v.i)
      [] v.t = "text" -> v.s
      [] OTHER -> <<"N", "o", "n", "e">>

(* ------------------------- floats as fractions -------------------------- *)

\* A float is the fraction <<n, d>> in lowest terms with d > 0.  Lengths are
\* counted in units of 299 792 458 m (one light-second), in which
\* METERS_PER_LY = 9.4607304725808e15 m is the integer below.
METERS_PER_LY == 31557600

Abs(n) == IF n < 0 THEN 0 - n ELSE n

RECURSIVE Gcd(_, _)
Gcd(a, b) == IF b = 0 THEN a ELSE Gcd(b, a % b)

Frac(n, d) ==
    LET g == Gcd(Abs(n), Abs(d))
        sg == IF d < 0 THEN 0 - 1 ELSE 1
    IN  <<(sg * n) \div g, (sg * d) \div g>>

\* float / float
fdiv(a, b) == Frac(a[1] * b[2], a[2] * b[1])

\* -float
fneg(a) == <<0 - a[1], a[2]>>

\* float(v): [ok, v, exc]
py_float(v) ==
    CASE v.t = "int" -> [ok |-> TRUE, v |-> <<v.i, 1>>, exc |-> "none"]
      [] v.t = "text" ->
            LET p == parse_int(v.s)
            IN  [ok |-> p.ok, v |-> <<p.v, 1>>, exc |-> IF p.ok THEN "none" ELSE "ValueError"]
      [] OTHER -> [ok |-> FALSE, v |-> <<0, 1>>, exc |-> "TypeError"]

\* array('f').append: a value a 32-bit float holds exactly is stored as it
\* is; any other is stored rounded, which the model marks and does not compute.
IsPow2(n) == \E e \in 0..23 : 2 ^ e = n

to_float32(q) == [exact |-> IsPow2(q[2]) /\ Abs(q[1]) < 16777216, q |-> q]

(* --------------------------- pure functions ----------------------------- *)

\* One atom of a pattern: a literal compared under re.IGNORECASE, or \d.
Lit(c) == [k |-> "lit", c |-> c]
AnyDigit == [k |-> "digit", c |-> ""]

atom_matches(a, c) ==
    IF a.k = "digit" THEN is_digit(c) ELSE lower_char(a.c) = lower_char(c)

\* "$" without re.MULTILINE: at the end of the string, or just before a
\* newline that is the string's last character.
dollar_at(s, p) == p = Len(s) + 1 \/ (p = Len(s) /\ s[p] = "\n")

\* re.match(r'^<atoms>$', s, re.IGNORECASE) is not None
re_match(atoms, s) ==
    /\ Len(s) >= Len(atoms)
    /\ \A i \in 1..Len(atoms) : atom_matches(atoms[i], s[i])
    /\ dollar_at(s, Len(atoms) + 1)

PatternV == <<Lit("V"), Lit("-"), AnyDigit, AnyDigit, AnyDigit>>
PatternAD == <<Lit("A"), Lit("D"), AnyDigit, AnyDigit, AnyDigit>>

is_filtered_system(name) == re_match(PatternV, name) \/ re_match(PatternAD, name)

transform_xyz_swapped(xm, ym, zm) ==
    <<fdiv(xm, <<METERS_PER_LY, 1>>), fdiv(ym, <<METERS_PER_LY, 1>>),
      fneg(fdiv(zm, <<METERS_PER_LY, 1>>))>>

transform_xyz(xm, ym, zm) ==
    LET xly == fdiv(xm, <<METERS_PER_LY, 1>>)
        yly == fdiv(ym, <<METERS_PER_LY, 1>>)
        zly == fdiv(zm, <<METERS_PER_LY, 1>>)
    IN  <<xly, zly, fneg(yly)>>

\* the least index of a sequence that a loop "for i, c in enumerate(..)" with
\* an early return stops at; 0 when the loop runs out
first_index(hits) == IF hits = {} THEN 0 ELSE CHOOSE i \in hits : \A j \in hits : i <= j

\* infer_table over the table names sqlite_master lists
infer_table(tables, needle_keywords) ==
    LET hit == first_index({i \in 1..Len(tables) :
                   \E k \in needle_keywords : substr_in(k, lower(tables[i]))})
    IN  IF hit # 0 THEN tables[hit]
        ELSE IF tables # << >> THEN tables[1] ELSE None

find_col_by_column_order(cols, candidates) ==
    LET hit == first_index({i \in 1..Len(cols) :
                   \E n \in 1..Len(candidates) : candidates[n] = lower(cols[i])})
    IN  IF hit # 0 THEN cols[hit] ELSE None

RECURSIVE find_col_from(_, _, _)
find_col_from(cols, candidates, n) ==
    IF n > Len(candidates) THEN None
    ELSE LET hit == first_index({i \in 1..Len(cols) : candidates[n] = lower(cols[i])})
         IN  IF hit # 0 THEN cols[hit] ELSE find_col_from(cols, candidates, n + 1)

find_col(cols, candidates) == find_col_from(cols, candidates, 1)

contains_any_part(jmp_cols, parts) ==
    LET hit == first_index({i \in 1..Len(jmp_cols) :
                   \E p \in parts : substr_in(p, lower(jmp_cols[i]))})
    IN  IF hit # 0 THEN jmp_cols[hit] ELSE None

\* main's local contains(parts) over jmp_cols
contains(jmp_cols, parts) ==
    LET hit == first_index({i \in 1..Len(jmp_cols) :
                   \A p \in parts : substr_in(p, lower(jmp_cols[i]))})
    IN  IF hit # 0 THEN jmp_cols[hit] ELSE None

\* Python's "a or b" on names
Or(a, b) == IF a # None THEN a ELSE b

IdCandidates == <<<<"i", "d">>, <<"s", "y", "s", "t", "e", "m", "_", "i", "d">>, <<"s", "o", "l", "a", "r", "s", "y", "s", "t", "e", "m", "i", "d">>, <<"s", "m", "a", "r", "t", "_", "o", "b", "j", "e", "c", "t", "_", "i", "d">>>>
NameCandidates == <<<<"n", "a", "m", "e">>, <<"s", "y", "s", "t", "e", "m", "_", "n", "a", "m", "e">>, <<"l", "a", "b", "e", "l">>>>
XCandidates == <<<<"x">>, <<"p", "o", "s", "x">>, <<"p", "o", "s", "i", "t", "i", "o", "n", "_", "x">>, <<"w", "o", "r", "l", "d", "_", "x">>, <<"c", "e", "n", "t", "e", "r", "x">>>>
YCandidates == <<<<"y">>, <<"p", "o", "s", "y">>, <<"p", "o", "s", "i", "t", "i", "o", "n", "_", "y">>, <<"w", "o", "r", "l", "d", "_", "y">>, <<"c", "e", "n", "t", "e", "r", "y">>>>
ZCandidates == <<<<"z">>, <<"p", "o", "s", "z">>, <<"p", "o", "s", "i", "t", "i", "o", "n", "_", "z">>, <<"w", "o", "r", "l", "d", "_", "z">>, <<"c", "e", "n", "t", "e", "r", "z">>>>

(* ------------------------------ database -------------------------------- *)

\* get_cols: PRAGMA table_info(table); SQLite compares table names without
\* case and answers an unknown table with no rows.
get_cols(dbase, table) ==
    LET hit == first_index({i \in 1..Len(dbase) : lower(dbase[i].name) = lower(table)})
    IN  IF hit # 0 THEN dbase[hit].cols ELSE << >>

table_exists(dbase, table) == \E i \in 1..Len(dbase) : lower(dbase[i].name) = lower(table)

\* the column of the table a name in a SELECT refers to (SQLite compares
\* column names without case); None when there is none
declared(cols, c) ==
    LET hit == first_index({i \in 1..Len(cols) : lower(cols[i]) = lower(c)})
    IN  IF hit # 0 THEN cols[hit] ELSE None

\* cur.execute("SELECT <cols> FROM <table>") raises sqlite3.OperationalError
\* for an unknown table or column
select_ok(dbase, table, cols) ==
    /\ table_exists(dbase, table)
    /\ \A c \in cols : declared(get_cols(dbase, table), c) # None

(* Row k of any table holds, in the column named c, the value Cell(c, k):   *)
(* the sample rows below, one column of the table per column kind.          *)
L1 == METERS_PER_LY

SampleId ==
    <<IntV(1), IntV(2), IntV(3), TextV(<<"a", "b", "c">>), TextV(<<"a", "b", "c">>), IntV(6), IntV(0 - 1),
      IntV(8), IntV(9), IntV(1), TextV(<<"1", "1">>), IntV(12), IntV(13), IntV(14), IntV(15)>>

SampleName ==
    <<TextV(<<"S", "o", "l">>), TextV(<<"V", "-", "0", "0", "1">>), TextV(<<"A", "l", "p", "h", "a">>), TextV(<<"B", "e", "t", "a">>),
      TextV(<<"a", "d", "1", "2", "3">>), TextV(<<"G", "a", "m", "m", "a">>), TextV(<<"D", "e", "l", "t", "a">>), NullV,
      TextV(<<"V", "-", "0", "0", "1", "\n">>), TextV(<<"V", "-", "1">>), TextV(<<"A", "D", "0", "0", "1">>), TextV(<<"V", "-", "0", "0", "0", "1">>),
      TextV(<<"v", "-", "9", "9", "9">>), TextV(<<"A", "D", "X", "0", "0", "1">>), TextV(<<"A", "l", "p", "h", "a", "-", "0", "0", "1">>)>>

SampleX ==
    <<IntV(0), IntV(0), IntV(L1), IntV(0), IntV(0), NullV, IntV(0), IntV(0),
      IntV(L1), IntV(0 - 5 * L1), IntV(0), IntV(L1 \div 2), IntV(0), IntV(0), TextV(<<"f", "a", "r">>)>>

SampleY ==
    <<IntV(0), IntV(0), IntV(0), IntV(0), IntV(0), IntV(0), IntV(0), IntV(0),
      IntV(2 * L1), IntV(10 * L1), IntV(0), IntV(7), IntV(0), IntV(0), IntV(0)>>

SampleZ ==
    <<IntV(0), IntV(0), IntV(0), IntV(0), IntV(0), IntV(0), IntV(0), IntV(0),
      IntV(3 * L1), IntV(0 - 3 * L1), IntV(0), TextV(<<"-", "3", "0">>), IntV(0), IntV(0), IntV(0)>>

SampleFrom ==
    <<IntV(1), IntV(1), IntV(3), NullV, TextV(<<"q">>), IntV(3), TextV(<<"3">>)>>

SampleTo ==
    <<IntV(2), IntV(3), IntV(99), IntV(1), IntV(1), NullV, IntV(1)>>

NSamples == Len(SampleId)

Pick(sample, k) == sample[((k - 1) % Len(sample)) + 1]

\* a column kind's values, moved so that two columns of a table never agree
Shift(v, by) == IF v.t = "int" THEN IntV(v.i + by) ELSE v

Cell(c, k) ==
    LET n == lower(c)
    IN  CASE n \in {<<"i", "d">>, <<"s", "o", "l", "a", "r", "s", "y", "s", "t", "e", "m", "i", "d">>} -> Pick(SampleId, k)
          [] n = <<"s", "y", "s", "t", "e", "m", "_", "i", "d">> -> Shift(Pick(SampleId, k), 20)
          [] n = <<"n", "a", "m", "e">> -> Pick(SampleName, k)
          [] n = <<"l", "a", "b", "e", "l">> -> TextV(<<"L">> \o int_to_text(k))
          [] n \in {<<"x">>, <<"c", "e", "n", "t", "e", "r", "x">>} -> Pick(SampleX, k)
          [] n \in {<<"y">>, <<"p", "o", "s", "y">>} -> Pick(SampleY, k)
          [] n \in {<<"z">>, <<"c", "e", "n", "t", "e", "r", "z">>} -> Pick(SampleZ, k)
          [] n \in {<<"f", "r", "o", "m", "_", "i", "d">>, <<"f", "r", "o", "m", "s", "y", "s", "t", "e", "m", "i", "d">>} -> Pick(SampleFrom, k)
          [] n \in {<<"t", "o", "_", "i", "d">>, <<"t", "o", "s", "y", "s", "t", "e", "m", "i", "d">>} -> Pick(SampleTo, k)
          [] n = <<"a", "_", "i", "d">> -> Shift(Pick(SampleFrom, k), 40)
          [] n = <<"b", "_", "i", "d">> -> Shift(Pick(SampleTo, k), 40)
          [] n = <<"s", "o", "u", "r", "c", "e">> -> Shift(Pick(SampleFrom, k), 60)
          [] n = <<"t", "a", "r", "g", "e", "t">> -> Shift(Pick(SampleTo, k), 60)
          [] OTHER -> IntV(80 + k)

\* The tables the scenarios draw from, each with its columns.
T_SolarSystems == <<"S", "o", "l", "a", "r", "S", "y", "s", "t", "e", "m", "s">>
T_regions == <<"r", "e", "g", "i", "o", "n", "s">>
T_jumps == <<"j", "u", "m", "p", "s">>
T_StarGates == <<"S", "t", "a", "r", "G", "a", "t", "e", "s">>
T_links == <<"l", "i", "n", "k", "s">>

DefaultSysCols == <<<<"i", "d">>, <<"n", "a", "m", "e">>, <<"x">>, <<"y">>, <<"z">>>>
DefaultJmpCols == <<<<"f", "r", "o", "m", "_", "i", "d">>, <<"t", "o", "_", "i", "d">>>>

TableCols(t, sysCols, jmpCols) ==
    CASE t = T_SolarSystems -> sysCols
      [] t = T_jumps -> jmpCols
      [] t = T_regions -> <<<<"I", "D">>, <<"N", "a", "m", "e">>>>
      [] t = T_StarGates -> <<<<"a", "_", "i", "d">>, <<"b", "_", "i", "d">>>>
      [] t = T_links -> <<<<"s", "o", "u", "r", "c", "e">>, <<"t", "a", "r", "g", "e", "t">>>>
      [] OTHER -> <<<<"k">>>>

MkDb(tables, sysCols, jmpCols) ==
    [i \in 1..Len(tables) |->
        [name |-> tables[i], cols |-> TableCols(tables[i], sysCols, jmpCols)]]

\* every ordering of every subset of S
Orderings(S) ==
    UNION {{f \in [1..Cardinality(T) -> T] :
                \A i, j \in 1..Cardinality(T) : i # j => f[i] # f[j]} : T \in SUBSET S}

NoArgs ==
    [systems_table |-> None, sys_id_col |-> None, sys_name_col |-> None,
     sys_x_col |-> None, sys_y_col |-> None, sys_z_col |-> None,
     jumps_table |-> None, jump_from_col |-> None, jump_to_col |-> None]

\* The command lines of the override scenarios.
ArgLines ==
    {[NoArgs EXCEPT !.systems_table = T_regions],
     [NoArgs EXCEPT !.systems_table = <<"n", "o", "p", "e">>],
     [NoArgs EXCEPT !.systems_table = <<"n", "o", "p", "e">>, !.sys_id_col = <<"i", "d">>],
     [NoArgs EXCEPT !.jumps_table = T_links],
     [NoArgs EXCEPT !.jumps_table = <<"n", "o", "p", "e">>],
     [NoArgs EXCEPT !.jumps_table = <<"n", "o", "p", "e">>, !.jump_from_col = <<"f", "r", "o", "m", "_", "i", "d">>,
                    !.jump_to_col = <<"t", "o", "_", "i", "d">>],
     [NoArgs EXCEPT !.sys_id_col = <<"s", "y", "s", "t", "e", "m", "_", "i", "d">>],
     [NoArgs EXCEPT !.sys_name_col = <<"l", "a", "b", "e", "l">>],
     [NoArgs EXCEPT !.sys_name_col = <<"N", "A", "M", "E">>],
     [NoArgs EXCEPT !.sys_name_col = <<"z", "z">>],
     [NoArgs EXCEPT !.sys_x_col = <<"y">>, !.sys_y_col = <<"z">>, !.sys_z_col = <<"x">>],
     [NoArgs EXCEPT !.jump_from_col = <<"t", "o", "_", "i", "d">>, !.jump_to_col = <<"f", "r", "o", "m", "_", "i", "d">>],
     [NoArgs EXCEPT !.jump_from_col = <<"z", "z">>],
     [NoArgs EXCEPT !.jump_to_col = <<"s", "o", "u", "r", "c", "e">>]}

Scenario(tables, sysCols, jmpCols, a, sysPool, jmpPool, sysRows, jmpRows) ==
    [db |-> MkDb(tables, sysCols, jmpCols), args |-> a,
     sys_pool |-> sysPool, jmp_pool |-> jmpPool, sys_rows |-> sysRows, jmp_rows |-> jmpRows,
     sys_seq |-> << >>]

\* the same run on a systems table holding exactly the rows seq, in that order
WithSystems(sc, seq) == [sc EXCEPT !.sys_seq = seq]

MainTables == <<T_SolarSystems, T_jumps>>

\* systems tables of three rows: Sol, V-001, Alpha; and Alpha, a second row
\* with id 1, Sol
SystemsTables == {<<1, 2, 3>>, <<3, 10, 1>>}

\* many rows of the plain schema, the data the filters and the writer work
\* on: any systems with a jump 1 -> 3, and any jumps over a given systems table
DataScenarios ==
    {Scenario(MainTables, DefaultSysCols, DefaultJmpCols, NoArgs,
              {1, 2, 3, 4, 6}, {2}, MaxSystems, MaxSchemaRows)}
    \cup {WithSystems(Scenario(MainTables, DefaultSysCols, DefaultJmpCols, NoArgs,
                               {}, {1, 2, 3, 4, 5, 7}, 0, MaxJumps), seq) :
             seq \in SystemsTables}

\* one row of every kind
RowScenarios ==
    {Scenario(MainTables, DefaultSysCols, DefaultJmpCols, NoArgs,
              1..NSamples, {1}, MaxSchemaRows, MaxSchemaRows),
     Scenario(MainTables, DefaultSysCols, DefaultJmpCols, NoArgs,
              {1, 3}, 1..Len(SampleFrom), MaxSchemaRows, MaxSchemaRows)}

SchemaPoolSys == {1, 3}
SchemaPoolJmp == {2}

TableScenarios ==
    {Scenario(ts, DefaultSysCols, DefaultJmpCols, NoArgs,
              SchemaPoolSys, SchemaPoolJmp, MaxSchemaRows, MaxSchemaRows) :
        ts \in Orderings({T_SolarSystems, T_regions, T_jumps, T_StarGates})
               \cup {<<T_regions, T_links>>, <<T_links>>}}

SysColLists ==
    (Orderings({<<"s", "y", "s", "t", "e", "m", "_", "i", "d">>, <<"I", "D">>, <<"l", "a", "b", "e", "l">>, <<"N", "a", "m", "e">>}) \ {<< >>})
    \cup {<<<<"s", "o", "l", "a", "r", "S", "y", "s", "t", "e", "m", "I", "d">>, <<"n", "a", "m", "e">>, <<"c", "e", "n", "t", "e", "r", "X">>, <<"p", "o", "s", "y">>, <<"Z">>>>,
          <<<<"s", "i", "d">>, <<"n", "m">>, <<"p", "x">>>>,
          <<<<"f", "r", "o", "m", "_", "i", "d">>, <<"i", "d">>, <<"t", "o", "_", "i", "d">>>>}

SysColScenarios ==
    {Scenario(ts, cs, DefaultJmpCols, NoArgs,
              SchemaPoolSys, SchemaPoolJmp, MaxSchemaRows, MaxSchemaRows) :
        ts \in {MainTables, <<T_SolarSystems>>}, cs \in SysColLists}

JmpColLists ==
    Orderings({<<"f", "r", "o", "m", "_", "i", "d">>, <<"A", "_", "I", "D">>, <<"s", "o", "u", "r", "c", "e">>, <<"t", "o", "_", "i", "d">>})
    \cup Orderings({<<"t", "o", "_", "i", "d">>, <<"b", "_", "i", "d">>, <<"T", "a", "r", "g", "e", "t">>, <<"f", "r", "o", "m", "_", "i", "d">>})
    \cup {<<<<"f", "r", "o", "m", "S", "y", "s", "t", "e", "m", "I", "d">>, <<"t", "o", "S", "y", "s", "t", "e", "m", "I", "d">>>>, <<<<"s", "o", "u", "r", "c", "e", "_", "i", "d">>, <<"t", "a", "r", "g", "e", "t", "_", "i", "d">>>>}

JmpColScenarios ==
    {Scenario(MainTables, DefaultSysCols, cs, NoArgs,
              SchemaPoolSys, SchemaPoolJmp, MaxSchemaRows, MaxSchemaRows) :
        cs \in JmpColLists}

ArgScenarios ==
    {Scenario(<<T_SolarSystems, T_regions, T_jumps, T_links>>,
              <<<<"i", "d">>, <<"s", "y", "s", "t", "e", "m", "_", "i", "d">>, <<"n", "a", "m", "e">>, <<"l", "a", "b", "e", "l">>, <<"x">>, <<"y">>, <<"z">>>>,
              <<<<"f", "r", "o", "m", "_", "i", "d">>, <<"t", "o", "_", "i", "d">>, <<"s", "o", "u", "r", "c", "e">>>>, a,
              SchemaPoolSys, SchemaPoolJmp, MaxSchemaRows, MaxSchemaRows) :
        a \in ArgLines}

Scenarios ==
    DataScenarios \cup RowScenarios \cup TableScenarios \cup SysColScenarios
    \cup JmpColScenarios \cup ArgScenarios


(* ------------------------------- state --------------------------------- *)

VARIABLES
    db,                 \* the database: a sequence of [name, cols]
    args,               \* the parsed command line
    plan,               \* the rows the two cursors may yield
    pc,                 \* where main() is
    exc,                \* the exception that ended the run, "none" otherwise
    systems_table, jumps_table,
    id_col, name_col, x_col, y_col, z_col,
    fetched,            \* the rows of the systems query read so far
    systems, filtered_count,
    source_col, target_col,
    jump_rows,          \* how many rows of the jumps query were read
    jumps,
    valid_system_ids, ids, positions, names,
    flat_jumps, filtered_jumps,
    files,              \* the files written, in order: [name, content]
    summary,            \* what was printed to standard output
    targs, tout         \* a direct call of transform_xyz and its result

inputs == <<db, args, plan>>
tables_v == <<systems_table, jumps_table>>
cols_v == <<id_col, name_col, x_col, y_col, z_col>>
sys_v == <<fetched, systems, filtered_count>>
jmp_v == <<source_col, target_col, jump_rows, jumps>>
arr_v == <<valid_system_ids, ids, positions, names>>
flt_v == <<flat_jumps, filtered_jumps>>
out_v == <<files, summary>>
call_v == <<targs, tout>>

vars == <<inputs, pc, exc, tables_v, cols_v, sys_v, jmp_v, arr_v, flt_v, out_v, call_v>>

Blank ==
    /\ exc = "none"
    /\ systems_table = None /\ jumps_table = None
    /\ id_col = None /\ name_col = None /\ x_col = None /\ y_col = None /\ z_col = None
    /\ fetched = << >> /\ systems = << >> /\ filtered_count = 0
    /\ source_col = None /\ target_col = None /\ jump_rows = 0 /\ jumps = << >>
    /\ valid_system_ids = {} /\ ids = << >> /\ positions = << >> /\ names = << >>
    /\ flat_jumps = << >> /\ filtered_jumps = 0
    /\ files = << >> /\ summary = << >>

InitFrom(scenarios) ==
    /\ \E sc \in scenarios :
          /\ db = sc.db
          /\ args = sc.args
          /\ plan = [sys_pool |-> sc.sys_pool, jmp_pool |-> sc.jmp_pool,
                     sys_rows |-> sc.sys_rows, jmp_rows |-> sc.jmp_rows,
                     sys_seq |-> sc.sys_seq]
    /\ pc = "resolve_tables"
    /\ Blank
    /\ targs = << >> /\ tout = << >>

Init == InitFrom(Scenarios)

Raise(e) == pc' = "aborted" /\ exc' = e

table_names == [i \in 1..Len(db) |-> db[i].name]

(* ------------------------------ actions --------------------------------- *)

\* lines 86-90
ResolveTables ==
    /\ pc = "resolve_tables"
    /\ systems_table' = Or(args.systems_table, infer_table(table_names, {<<"s", "y", "s", "t", "e", "m">>}))
    /\ jumps_table' = Or(args.jumps_table,
                         infer_table(table_names, {<<"j", "u", "m", "p">>, <<"g", "a", "t", "e">>, <<"l", "i", "n", "k">>}))
    /\ IF systems_table' = None
       THEN Raise("SystemExit")
       ELSE pc' = "resolve_cols" /\ exc' = exc
    /\ UNCHANGED <<inputs, cols_v, sys_v, jmp_v, arr_v, flt_v, out_v, call_v>>

\* lines 92-97
ResolveColumns ==
    /\ pc = "resolve_cols"
    /\ LET sys_cols == get_cols(db, systems_table)
           found == Or(args.sys_id_col, find_col(sys_cols, IdCandidates))
       IN  /\ IF found = None /\ sys_cols = << >>
              THEN Raise("IndexError") /\ id_col' = id_col
              ELSE /\ id_col' = Or(found, sys_cols[1])
                   /\ pc' = "query_systems" /\ exc' = exc
           /\ IF found = None /\ sys_cols = << >>
              THEN UNCHANGED <<name_col, x_col, y_col, z_col>>
              ELSE /\ name_col' = Or(args.sys_name_col, find_col(sys_cols, NameCandidates))
                   /\ x_col' = Or(args.sys_x_col, find_col(sys_cols, XCandidates))
                   /\ y_col' = Or(args.sys_y_col, find_col(sys_cols, YCandidates))
                   /\ z_col' = Or(args.sys_z_col, find_col(sys_cols, ZCandidates))
    /\ UNCHANGED <<inputs, tables_v, sys_v, jmp_v, arr_v, flt_v, out_v, call_v>>

\* the columns of the systems query, lines 100-104
projected == {c \in {id_col, name_col, x_col, y_col, z_col} : c # None}

\* line 105
QuerySystems ==
    /\ pc = "query_systems"
    /\ IF select_ok(db, systems_table, projected)
       THEN pc' = "load_systems" /\ exc' = exc
       ELSE Raise("OperationalError")
    /\ UNCHANGED <<inputs, tables_v, cols_v, sys_v, jmp_v, arr_v, flt_v, out_v, call_v>>

\* row.keys(): the declared names of the projected columns
row_keys == {declared(get_cols(db, systems_table), c) : c \in projected}

\* line 109
row_sid(k) == Cell(id_col, k)

\* line 110
row_nm(k) ==
    IF name_col # None /\ name_col \in row_keys
    THEN Cell(name_col, k) ELSE TextV(py_str(row_sid(k)))

\* lines 117-119: float(row[c]) if c else 0.0
row_coord(c, k) ==
    IF c # None THEN py_float(Cell(c, k)) ELSE [ok |-> TRUE, v |-> <<0, 1>>, exc |-> "none"]

\* One pass of the loop body, lines 109-120, on row k:
\* [kind: "raise" | "filtered" | "kept", exc, sys].
load_row(k) ==
    LET sid == row_sid(k)
        nm == row_nm(k)
        xv == row_coord(x_col, k)
        yv == row_coord(y_col, k)
        zv == row_coord(z_col, k)
        iv == py_int(sid)
        nosys == [sid |-> 0, nm |-> None, x |-> <<0, 1>>, y |-> <<0, 1>>, z |-> <<0, 1>>]
        raise(e) == [kind |-> "raise", exc |-> e, sys |-> nosys]
    IN  CASE nm.t # "text" -> raise("TypeError")
          [] is_filtered_system(nm.s) -> [kind |-> "filtered", exc |-> "none", sys |-> nosys]
          [] ~xv.ok -> raise(xv.exc)
          [] ~yv.ok -> raise(yv.exc)
          [] ~zv.ok -> raise(zv.exc)
          [] ~iv.ok -> raise(iv.exc)
          [] OTHER -> [kind |-> "kept", exc |-> "none",
                       sys |-> [sid |-> iv.v, nm |-> nm.s, x |-> xv.v, y |-> yv.v, z |-> zv.v]]

\* the rows cur.fetchall() can yield next: the next row of a given table, or
\* any row of the pool while the table is short of sys_rows rows
next_system_rows ==
    IF plan.sys_seq # << >>
    THEN IF Len(fetched) < Len(plan.sys_seq) THEN {plan.sys_seq[Len(fetched) + 1]} ELSE {}
    ELSE IF Len(fetched) < plan.sys_rows THEN plan.sys_pool ELSE {}

\* lines 108-120, one row
LoadSystemRow ==
    /\ pc = "load_systems"
    /\ \E k \in next_system_rows :
          LET r == load_row(k)
          IN  /\ fetched' = Append(fetched, k)
              /\ systems' = IF r.kind = "kept" THEN Append(systems, r.sys) ELSE systems
              /\ filtered_count' = IF r.kind = "filtered" THEN filtered_count + 1
                                   ELSE filtered_count
              /\ IF r.kind = "raise" THEN Raise(r.exc) ELSE UNCHANGED <<pc, exc>>
    /\ UNCHANGED <<inputs, tables_v, cols_v, jmp_v, arr_v, flt_v, out_v, call_v>>

\* the cursor has no more rows; line 123
EndSystems ==
    /\ pc = "load_systems"
    /\ plan.sys_seq # << >> => next_system_rows = {}
    /\ pc' = "resolve_jump_cols"
    /\ UNCHANGED <<inputs, exc, tables_v, cols_v, sys_v, jmp_v, arr_v, flt_v, out_v, call_v>>

\* lines 124-134
ResolveJumpCols ==
    /\ pc = "resolve_jump_cols"
    /\ IF jumps_table # None
       THEN LET jmp_cols == get_cols(db, jumps_table)
            IN  /\ source_col' = Or(args.jump_from_col,
                                   Or(contains(jmp_cols, {<<"f", "r", "o", "m">>, <<"i", "d">>}),
                                      Or(contains(jmp_cols, {<<"a">>, <<"i", "d">>}),
                                         contains(jmp_cols, {<<"s", "o", "u", "r", "c", "e">>}))))
                /\ target_col' = Or(args.jump_to_col,
                                   Or(contains(jmp_cols, {<<"t", "o">>, <<"i", "d">>}),
                                      Or(contains(jmp_cols, {<<"b">>, <<"i", "d">>}),
                                         contains(jmp_cols, {<<"t", "a", "r", "g", "e", "t">>}))))
                /\ pc' = IF source_col' # None /\ target_col' # None
                         THEN "query_jumps" ELSE "build"
       ELSE UNCHANGED <<source_col, target_col>> /\ pc' = "build"
    /\ UNCHANGED <<inputs, exc, tables_v, cols_v, sys_v, jump_rows, jumps, arr_v, flt_v,
                   out_v, call_v>>

\* line 135
QueryJumps ==
    /\ pc = "query_jumps"
    /\ IF select_ok(db, jumps_table, {source_col, target_col})
       THEN pc' = "load_jumps" /\ exc' = exc
       ELSE Raise("OperationalError")
    /\ UNCHANGED <<inputs, tables_v, cols_v, sys_v, jmp_v, arr_v, flt_v, out_v, call_v>>

\* One pass of the loop body, lines 137-138, on row k:
\* [kind: "raise" | "skipped" | "kept", exc, jump].
load_jump(k) ==
    LET s == Cell(source_col, k)
        t == Cell(target_col, k)
        si == py_int(s)
        ti == py_int(t)
    IN  CASE s.t = "null" \/ t.t = "null" -> [kind |-> "skipped", exc |-> "none", jump |-> <<0, 0>>]
          [] ~si.ok -> [kind |-> "raise", exc |-> si.exc, jump |-> <<0, 0>>]
          [] ~ti.ok -> [kind |-> "raise", exc |-> ti.exc, jump |-> <<0, 0>>]
          [] OTHER -> [kind |-> "kept", exc |-> "none", jump |-> <<si.v, ti.v>>]

\* lines 136-138, one row
LoadJumpRow ==
    /\ pc = "load_jumps"
    /\ jump_rows < plan.jmp_rows
    /\ \E k \in plan.jmp_pool :
          LET r == load_jump(k)
          IN  /\ jump_rows' = jump_rows + 1
              /\ jumps' = IF r.kind = "kept" THEN Append(jumps, r.jump) ELSE jumps
              /\ IF r.kind = "raise" THEN Raise(r.exc) ELSE UNCHANGED <<pc, exc>>
    /\ UNCHANGED <<inputs, tables_v, cols_v, sys_v, source_col, target_col, arr_v, flt_v,
                   out_v, call_v>>

\* the cursor has no more rows; line 140
EndJumps ==
    /\ pc = "load_jumps"
    /\ pc' = "build"
    /\ UNCHANGED <<inputs, exc, tables_v, cols_v, sys_v, jmp_v, arr_v, flt_v, out_v, call_v>>

\* array('I').append(n) raises OverflowError unless 0 <= n <= 4294967295; the
\* upper limit is above every integer of the model.
fits_uint32(n) == n >= 0

\* how many passes of the loop of lines 150-154 complete
built_count == 
    LET bad == first_index({i \in 1..Len(systems) : ~fits_uint32(systems[i].sid)})
    IN  IF bad = 0 THEN Len(systems) ELSE bad - 1

\* names after the first n passes: names[str(sid)] = nm, a later pass
\* replacing an earlier one's entry
RECURSIVE names_after(_)
names_after(n) ==
    IF n = 0 THEN << >>
    ELSE LET prev == names_after(n - 1)
             key == int_to_text(systems[n].sid)
         IN  [k \in (DOMAIN prev) \cup {key} |-> IF k = key THEN systems[n].nm ELSE prev[k]]

positions_extend_unaligned(n) ==
    [j \in 1..(3 * n) |->
        LET sy == systems[Len(systems) - ((j - 1) \div 3)]
        IN  to_float32(transform_xyz(sy.x, sy.y, sy.z)[((j - 1) % 3) + 1])]

\* positions after the first n passes, lines 153-154
positions_extend(n) ==
    [j \in 1..(3 * n) |->
        LET sy == systems[((j - 1) \div 3) + 1]
        IN  to_float32(transform_xyz(sy.x, sy.y, sy.z)[((j - 1) % 3) + 1])]

BuildArrays_writing_as_it_goes ==
    /\ pc = "build"
    /\ valid_system_ids' = {systems[i].sid : i \in 1..Len(systems)}
    /\ ids' = [i \in 1..built_count |-> systems[i].sid]
    /\ names' = names_after(built_count)
    /\ positions' = positions_extend(built_count)
    /\ files' = Append(files, [name |-> "systems_positions.bin", content |-> positions'])
    /\ IF built_count < Len(systems)
       THEN Raise("OverflowError")
       ELSE pc' = "filter_jumps" /\ exc' = exc
    /\ UNCHANGED <<inputs, tables_v, cols_v, sys_v, jmp_v, flt_v, summary, call_v>>

\* lines 143-154
BuildArrays ==
    /\ pc = "build"
    /\ valid_system_ids' = {systems[i].sid : i \in 1..Len(systems)}
    /\ ids' = [i \in 1..built_count |-> systems[i].sid]
    /\ names' = names_after(built_count)
    /\ positions' = positions_extend(built_count)
    /\ IF built_count < Len(systems)
       THEN Raise("OverflowError")
       ELSE pc' = "filter_jumps" /\ exc' = exc
    /\ UNCHANGED <<inputs, tables_v, cols_v, sys_v, jmp_v, flt_v, out_v, call_v>>

jump_valid_source_only(valid, j) == j[1] \in valid

\* line 160
jump_valid(valid, j) == j[1] \in valid /\ j[2] \in valid

\* lines 157-161
RECURSIVE flatten_valid(_, _)
flatten_valid(js, valid) ==
    IF js = << >> THEN << >>
    ELSE (IF jump_valid(valid, Head(js)) THEN <<Head(js)[1], Head(js)[2]>> ELSE << >>)
         \o flatten_valid(Tail(js), valid)

\* lines 157-163
FilterJumps ==
    /\ pc = "filter_jumps"
    /\ flat_jumps' = flatten_valid(jumps, valid_system_ids)
    /\ filtered_jumps' =
          Cardinality({i \in 1..Len(jumps) : ~jump_valid(valid_system_ids, jumps[i])})
    /\ pc' = "write_positions"
    /\ UNCHANGED <<inputs, exc, tables_v, cols_v, sys_v, jmp_v, arr_v, out_v, call_v>>

manifest_counts_surviving == [systems |-> Len(systems), jumps |-> Len(flat_jumps) \div 2]

\* lines 171-175: manifest["counts"]
manifest_counts == [systems |-> Len(systems), jumps |-> Len(jumps)]

\* lines 171-186
manifest ==
    [counts |-> manifest_counts,
     coord_system |-> [units |-> "lightyears",
                       transform |-> "Rx(-90deg), i.e., (x,y,z)->(x,z,-y)"]]

WriteFile(at, name, content, then) ==
    /\ pc = at
    /\ files' = Append(files, [name |-> name, content |-> content])
    /\ pc' = then
    /\ UNCHANGED <<inputs, exc, tables_v, cols_v, sys_v, jmp_v, arr_v, flt_v, summary, call_v>>

\* line 166
WritePositions == WriteFile("write_positions", "systems_positions.bin", positions, "write_ids")

\* line 167
WriteIds == WriteFile("write_ids", "systems_ids.bin", ids, "write_names")

\* line 168
WriteNames == WriteFile("write_names", "systems_names.json", names, "write_jumps")

\* line 169
WriteJumps == WriteFile("write_jumps", "jumps.bin", flat_jumps, "write_manifest")

\* line 187
WriteManifest == WriteFile("write_manifest", "manifest.json", manifest, "print_summary")

\* lines 189-197
PrintSummary ==
    /\ pc = "print_summary"
    /\ summary' = Append(summary,
          [systems_table |-> systems_table, jumps_table |-> jumps_table,
           systems_count |-> Len(systems), filtered_systems |-> filtered_count,
           jumps_count |-> Len(flat_jumps) \div 2, filtered_jumps |-> filtered_jumps])
    /\ pc' = "done"
    /\ UNCHANGED <<inputs, exc, tables_v, cols_v, sys_v, jmp_v, arr_v, flt_v, files, call_v>>

Next ==
    \/ ResolveTables \/ ResolveColumns \/ QuerySystems \/ LoadSystemRow \/ EndSystems
    \/ ResolveJumpCols \/ QueryJumps \/ LoadJumpRow \/ EndJumps
    \/ BuildArrays \/ FilterJumps
    \/ WritePositions \/ WriteIds \/ WriteNames \/ WriteJumps \/ WriteManifest
    \/ PrintSummary

Spec == Init /\ [][Next]_vars

\* the runs on the plain schema with no override on the command line
InitData == InitFrom(DataScenarios \cup RowScenarios)

SpecData == InitData /\ [][Next]_vars

(* ----------------------- transform_xyz on its own ----------------------- *)

HalfLy == METERS_PER_LY \div 2

\* the coordinates transform_xyz is called with, in metres' stead: multiples
\* of half a light-year, and a few lengths that are no such multiple
CallCoords == {<<k * HalfLy, 1>> : k \in (0 - MaxLy)..MaxLy} \cup {<<1, 1>>, <<0 - 7, 1>>}

InitCall ==
    /\ db = << >> /\ args = NoArgs
    /\ plan = [sys_pool |-> {}, jmp_pool |-> {}, sys_rows |-> 0, jmp_rows |-> 0, sys_seq |-> << >>]
    /\ pc = "call"
    /\ Blank
    /\ targs \in CallCoords \X CallCoords \X CallCoords
    /\ tout = << >>

CallTransform ==
    /\ pc = "call"
    /\ tout' = transform_xyz(targs[1], targs[2], targs[3])
    /\ pc' = "returned"
    /\ UNCHANGED <<inputs, exc, tables_v, cols_v, sys_v, jmp_v, arr_v, flt_v, out_v, targs>>

NextCall == CallTransform

SpecCall == InitCall /\ [][NextCall]_vars

(* ------------------------------ properties ------------------------------ *)

Succeeded == pc = "done"
Aborted == pc = "aborted"

\* flat_jumps and filtered_jumps have their final values
JumpsFiltered ==
    pc \in {"write_positions", "write_ids", "write_names", "write_jumps",
            "write_manifest", "print_summary", "done"}

\* ids, positions and names have their final values
ArraysBuilt == pc = "filter_jumps" \/ JumpsFiltered

Range(f) == {f[i] : i \in DOMAIN f}

\* the rows read so far that Test keeps, in the order they were read
RowsWhere(Test(_)) == SelectSeq(fetched, Test)

\* the name the loader gives row k, as text
NameText(k) == row_nm(k).s

\* the rows read that the name filter let through
SurvivingRows ==
    LET keep(k) == ~is_filtered_system(NameText(k))
    IN  RowsWhere(keep)

\* fraction q is n / METERS_PER_LY, for an integer n of the length unit
IsQuotient(q, n) == q[2] > 0 /\ q[1] * METERS_PER_LY = n * q[2]

\* the text is the decimal form of n: digits, a "-" before them when n < 0,
\* no leading zero
IsDecimalOf(txt, n) ==
    LET body == IF n < 0 THEN Tail(txt) ELSE txt
    IN  /\ txt # << >> /\ (n < 0 => Head(txt) = "-")
        /\ body # << >> /\ \A i \in 1..Len(body) : is_digit(body[i])
        /\ (Len(body) > 1 => body[1] # "0")
        /\ digits_value(body) = Abs(n)

(* C1: once the jumps are filtered, the jump array is exactly the loaded    *)
(* jumps whose source and target are both in the id array, each as source   *)
(* then target, in load order, and filtered_jumps counts the others.        *)
C1_Keep == {i \in 1..Len(jumps) : jumps[i][1] \in Range(ids) /\ jumps[i][2] \in Range(ids)}

C1_JumpsCrossFiltered ==
    JumpsFiltered =>
        /\ Len(flat_jumps) = 2 * Cardinality(C1_Keep)
        /\ \A i \in C1_Keep :
              LET r == Cardinality({j \in C1_Keep : j <= i})
              IN  flat_jumps[2 * r - 1] = jumps[i][1] /\ flat_jumps[2 * r] = jumps[i][2]
        /\ filtered_jumps = Len(jumps) - Cardinality(C1_Keep)

\* two different surviving pairs in load order, one jump dropped for a
\* filtered endpoint and one for an endpoint that is no system
C1_Witness ==
    /\ Succeeded
    /\ jumps = <<<<1, 3>>, <<1, 2>>, <<3, 1>>>>
    /\ flat_jumps = <<1, 3, 3, 1>>
    /\ filtered_jumps = 1
    /\ 2 \notin Range(ids)

(* C2: a loaded row is left out of every output exactly when its whole name *)
(* is V-ddd or ADddd (any letter case); a name with anything before or      *)
(* after the pattern is kept.                                               *)
C2_ExactPattern(name) ==
    /\ Len(name) = 5
    /\ \/ lower_char(name[1]) = "v" /\ name[2] = "-"
       \/ lower_char(name[1]) = "a" /\ lower_char(name[2]) = "d"
    /\ \A i \in 3..5 : is_digit(name[i])

C2_Retained ==
    LET keep(k) == ~C2_ExactPattern(NameText(k))
    IN  RowsWhere(keep)

C2_ExcludedIffExactPattern ==
    Succeeded =>
        /\ Len(ids) = Len(C2_Retained)
        /\ \A i \in 1..Len(ids) : i <= Len(C2_Retained) =>
              ids[i] = py_int(row_sid(C2_Retained[i])).v
        /\ Len(positions) = 3 * Len(C2_Retained)
        /\ Cardinality(DOMAIN names) = Cardinality(Range(ids))

C4_Coord(c, k) == IF c = None THEN 0 ELSE py_float(Cell(c, k)).v[1]

C4_OutputsAligned ==
    ArraysBuilt =>
        /\ Len(ids) = Len(SurvivingRows)
        /\ Len(positions) = 3 * Len(ids)
        /\ \A i \in 1..Len(SurvivingRows) :
              LET k == SurvivingRows[i]
              IN  /\ ids[i] = py_int(row_sid(k)).v
                  /\ IsQuotient(positions[3 * i - 2].q, C4_Coord(x_col, k))
                  /\ IsQuotient(positions[3 * i - 1].q, C4_Coord(z_col, k))
                  /\ IsQuotient(positions[3 * i].q, 0 - C4_Coord(y_col, k))
        /\ \A key \in DOMAIN names : \E i \in 1..Len(ids) : IsDecimalOf(key, ids[i])
        /\ \A i \in 1..Len(ids) : \E key \in DOMAIN names : IsDecimalOf(key, ids[i])

\* a filtered row between two survivors with different positions
C4_Witness ==
    /\ Succeeded
    /\ fetched = <<3, 2, 1>>
    /\ ids = <<3, 1>>
    /\ positions[1].q = <<1, 1>> /\ positions[4].q = <<0, 1>>
    /\ DOMAIN names = {<<"1">>, <<"3">>}

(* C5: with no override the systems table is the first table whose          *)
(* lowercased name contains "system", else the first table; the jumps table *)
(* is the first whose name contains "jump", "gate" or "link", and absent    *)
(* when no name does.                                                       *)
C5_FirstNamed(words) ==
    first_index({i \in 1..Len(db) : \E w \in words : substr_in(w, lower(db[i].name))})

C5_TablesResolved ==
    (pc # "resolve_tables" /\ db # << >>) =>
        /\ args.systems_table = None =>
              systems_table = IF C5_FirstNamed({<<"s", "y", "s", "t", "e", "m">>}) # 0
                              THEN db[C5_FirstNamed({<<"s", "y", "s", "t", "e", "m">>})].name
                              ELSE db[1].name
        /\ args.jumps_table = None =>
              jumps_table = IF C5_FirstNamed({<<"j", "u", "m", "p">>, <<"g", "a", "t", "e">>, <<"l", "i", "n", "k">>}) # 0
                            THEN db[C5_FirstNamed({<<"j", "u", "m", "p">>, <<"g", "a", "t", "e">>, <<"l", "i", "n", "k">>})].name
                            ELSE None

(* C6: a run aborts exactly when no systems table was supplied or inferred, *)
(* or a row of the systems table has an id that int() refuses; every other  *)
(* anomaly ends in success.                                                 *)
C6_NoSystemsTable == systems_table = None

C6_BadIdRead == \E i \in 1..Len(fetched) : ~py_int(row_sid(fetched[i])).ok

C6_AbortIffTableOrId ==
    /\ Aborted => (C6_NoSystemsTable \/ C6_BadIdRead)
    /\ Succeeded => ~C6_BadIdRead

(* C7: in a run that aborted no asset file was written and no summary was   *)
(* printed.                                                                 *)
C7_AbortWritesNothing == Aborted => (files = << >> /\ summary = << >>)

\* the last step that can abort: building the id array
C7_Witness == Aborted /\ exc = "OverflowError" /\ jumps # << >> /\ files = << >>

(* C8: the manifest counts the surviving systems and all loaded jumps, not  *)
(* the surviving pairs: systems 1 Sol, 2 V-001, 3 Alpha with jumps (1,2),   *)
(* (1,3), (3,99) give ids [1,3], jumps [1,3] and a manifest jumps count 3.  *)
C8_Scenario == fetched = <<1, 2, 3>> /\ jumps = <<<<1, 2>>, <<1, 3>>, <<3, 99>>>>

C8_ManifestCounts ==
    (Len(files) >= 5) =>
        /\ files[5].name = "manifest.json"
        /\ files[5].content.counts.systems = Len(SurvivingRows)
        /\ files[5].content.counts.jumps = Len(jumps)
        /\ C8_Scenario =>
              /\ files[2].content = <<1, 3>>
              /\ files[4].content = <<1, 3>>
              /\ files[5].content.counts.jumps = 3

C8_Witness ==
    /\ Succeeded /\ C8_Scenario
    /\ files[5].content.counts = [systems |-> 2, jumps |-> 3]
    /\ summary[1].jumps_count = 1

(* C9: each of id, name, x, y, z is resolved on its own: an override as it  *)
(* is given; else the column whose lowercased name is the earliest          *)
(* candidate that any column equals, whatever the columns' order; else the  *)
(* table's first column for id and nothing for the others, and then the     *)
(* name is str(id) and the coordinate 0.0, with no error.                   *)
C9_ColsResolved ==
    /\ pc \notin {"resolve_tables", "resolve_cols"}
    /\ ~(Aborted /\ exc \in {"SystemExit", "IndexError"})

C9_Pick(override, candidates, fallback, col) ==
    LET sys_cols == get_cols(db, systems_table)
        matched == {n \in 1..Len(candidates) :
                       \E i \in 1..Len(sys_cols) : lower(sys_cols[i]) = candidates[n]}
    IN  IF override # None THEN col = override
        ELSE IF matched # {}
             THEN /\ \E i \in 1..Len(sys_cols) : sys_cols[i] = col
                  /\ lower(col) = candidates[first_index(matched)]
             ELSE col = fallback

C9_KeptRows ==
    LET kept(k) == load_row(k).kind = "kept"
    IN  RowsWhere(kept)

C9_ColumnsResolvedIndependently ==
    C9_ColsResolved =>
        /\ C9_Pick(args.sys_id_col, IdCandidates, get_cols(db, systems_table)[1], id_col)
        /\ C9_Pick(args.sys_name_col, NameCandidates, None, name_col)
        /\ C9_Pick(args.sys_x_col, XCandidates, None, x_col)
        /\ C9_Pick(args.sys_y_col, YCandidates, None, y_col)
        /\ C9_Pick(args.sys_z_col, ZCandidates, None, z_col)
        /\ Len(systems) = Len(C9_KeptRows)
        /\ \A i \in 1..Len(systems) :
              /\ name_col = None => systems[i].nm = py_str(Cell(id_col, C9_KeptRows[i]))
              /\ x_col = None => systems[i].x = <<0, 1>>
              /\ y_col = None => systems[i].y = <<0, 1>>
              /\ z_col = None => systems[i].z = <<0, 1>>
        /\ (Aborted /\ exc = "TypeError" /\ jump_rows = 0) =>
              (name_col # None \/ x_col # None \/ y_col # None \/ z_col # None)

\* "id" wins over "system_id" although the system_id column comes first; no
\* name and no coordinate column: the name is str(id), the position 0
C9_Witness ==
    /\ Succeeded
    /\ get_cols(db, systems_table) = <<<<"s", "y", "s", "t", "e", "m", "_", "i", "d">>, <<"I", "D">>>>
    /\ id_col = <<"I", "D">> /\ name_col = None /\ x_col = None /\ y_col = None /\ z_col = None
    /\ fetched = <<3>>
    /\ names = (<<"3">> :> <<"3">>)
    /\ \A j \in 1..3 : positions[j].q = <<0, 1>>

(* C10: with a jumps table and no column override, the source column is the *)
(* first column containing "from" and "id", only failing that the first     *)
(* containing "a" and "id", only failing that the first containing          *)
(* "source"; the target column likewise with "to"+"id", "b"+"id",           *)
(* "target"; when either is missing no jump query is made and the run goes  *)
(* on with no jumps and no error.                                           *)
C10_JumpColsResolved ==
    pc \in {"query_jumps", "load_jumps", "build"} \/ ArraysBuilt

C10_First(parts) ==
    first_index({i \in 1..Len(get_cols(db, jumps_table)) :
                    \A p \in parts : substr_in(p, lower(get_cols(db, jumps_table)[i]))})

C10_Pick(phrases) ==
    LET jmp_cols == get_cols(db, jumps_table)
    IN  IF C10_First(phrases[1]) # 0 THEN jmp_cols[C10_First(phrases[1])]
        ELSE IF C10_First(phrases[2]) # 0 THEN jmp_cols[C10_First(phrases[2])]
        ELSE IF C10_First(phrases[3]) # 0 THEN jmp_cols[C10_First(phrases[3])]
        ELSE None

C10_JumpColumns ==
    (/\ C10_JumpColsResolved
     /\ jumps_table # None /\ table_exists(db, jumps_table)
     /\ args.jump_from_col = None /\ args.jump_to_col = None) =>
        /\ source_col = C10_Pick(<<{<<"f", "r", "o", "m">>, <<"i", "d">>}, {<<"a">>, <<"i", "d">>}, {<<"s", "o", "u", "r", "c", "e">>}>>)
        /\ target_col = C10_Pick(<<{<<"t", "o">>, <<"i", "d">>}, {<<"b">>, <<"i", "d">>}, {<<"t", "a", "r", "g", "e", "t">>}>>)
        /\ (source_col = None \/ target_col = None) =>
              /\ pc \notin {"query_jumps", "load_jumps"}
              /\ jumps = << >> /\ jump_rows = 0
              /\ exc = "none"

\* the later phrase's column comes first in the table and still loses
C10_Witness ==
    /\ Succeeded
    /\ get_cols(db, jumps_table) = <<<<"s", "o", "u", "r", "c", "e">>, <<"A", "_", "I", "D">>, <<"t", "o", "_", "i", "d">>>>
    /\ source_col = <<"A", "_", "I", "D">> /\ target_col = <<"t", "o", "_", "i", "d">>
    /\ jumps = <<<<41, 3>>>>

====
